---- MODULE Spec2Model ----
(***************************************************************************)
(* Bitcoin spam filter: the P2WSH fake-multisig detector, the chained      *)
(* OP_RETURN detector, the script decoding helpers of TransactionParser    *)
(* and the FilterEngine that sums their confidences against a threshold.   *)
(*                                                                         *)
(* Byte buffers are sequences of integers 0..255; a hex string of the      *)
(* transaction is represented by the bytes Buffer.from(s, 'hex') yields.   *)
(* JavaScript numbers are exact rationals [n, d] (d > 0), and NaN is the   *)
(* record with d = 0.                                                      *)
(***************************************************************************)
EXTENDS Integers, Sequences, FiniteSets, TLC

VARIABLES config, jsFilters, tx, op, verdict, p2wsh, opret, bytes, decoded, firstCall,
          calls

vars == <<config, jsFilters, tx, op, verdict, p2wsh, opret, bytes, decoded, firstCall,
          calls>>

(***************************************************************************)
(* Bounds of the model.                                                    *)
(***************************************************************************)
MaxInputs == 3
MaxOutputs == 2
MaxFilters == 2
MaxFuzzLen == 4
MaxCut == 200

(***************************************************************************)
(* Opcodes and thresholds of the program.                                  *)
(***************************************************************************)
OP_RETURN == 106
OP_CHECKMULTISIG == 174
OP_PUSH33 == 33
OP_1 == 81
OP_16 == 96
PubkeyLen == 33
MinWitnessItems == 3
RatioMinPubkeys == 3
MaxPlainPubkeys == 10
MaxConsecutiveZeros == 4
MaxZeroCount == 10
MaxRepeatingPatterns == 2
MaxDirectPush == 75
OP_PUSHDATA1 == 76
OP_PUSHDATA2 == 77
OP_PUSHDATA4 == 78
ContinuationLimit == 15000
StandardOpReturnSize == 80
MagicConfidence == 95
ChainConfidence == 60
OversizeConfidence == 40

(***************************************************************************)
(* JavaScript numbers.                                                     *)
(***************************************************************************)
RECURSIVE Gcd(_, _)
Gcd(a, b) ==
    IF b = 0 THEN a ELSE Gcd(b, a % b)

Abs(x) ==
    IF x < 0 THEN -x ELSE x

NaN ==
    [n |-> 0, d |-> 0]

IsNaN(a) ==
    a.d = 0

Norm(n, d) ==
    LET g == Gcd(Abs(n), d)
    IN  [n |-> n \div g, d |-> d \div g]

Num(k) ==
    [n |-> k, d |-> 1]

\* a + b
NumAdd(a, b) ==
    IF IsNaN(a) \/ IsNaN(b) THEN NaN
    ELSE Norm(a.n * b.d + b.n * a.d, a.d * b.d)

\* a >= b: false when either side is NaN
NumGE(a, b) ==
    /\ ~IsNaN(a)
    /\ ~IsNaN(b)
    /\ a.n * b.d >= b.n * a.d

\* a < b: false when either side is NaN
NumLT(a, b) ==
    /\ ~IsNaN(a)
    /\ ~IsNaN(b)
    /\ a.n * b.d < b.n * a.d

\* (a / b) * 100 for integers a and b > 0
Percent(a, b) ==
    Norm(100 * a, b)

IsInteger(a) ==
    a.d = 1

Floor(a) ==
    a.n \div a.d

\* Number.prototype.toFixed(2): the number rounded to hundredths
toFixed2(a) ==
    IF IsNaN(a) THEN NaN
    ELSE IF a.n >= 0 THEN Norm((200 * a.n + a.d) \div (2 * a.d), 100)
    ELSE Norm(-((200 * (-a.n) + a.d) \div (2 * a.d)), 100)

(***************************************************************************)
(* Buffers, 0-based as in the source.                                      *)
(***************************************************************************)
Min(a, b) ==
    IF a < b THEN a ELSE b

\* buf[i]
At(buf, i) ==
    buf[i + 1]

\* buf.slice(from, to): clamped to the buffer's length
Slice(buf, from, to) ==
    IF from >= Min(to, Len(buf)) THEN <<>> ELSE SubSeq(buf, from + 1, Min(to, Len(buf)))

\* buf.slice(from): empty when from is at or past the end
SliceFrom(buf, from) ==
    IF from >= Len(buf) THEN <<>> ELSE SubSeq(buf, from + 1, Len(buf))

Rep(b, n) ==
    [i \in 1..n |-> b]

RECURSIVE Flatten(_)
Flatten(ss) ==
    IF ss = <<>> THEN <<>> ELSE Head(ss) \o Flatten(Tail(ss))

(***************************************************************************)
(* TransactionParser.extractWitnessScript                                  *)
(***************************************************************************)
NoBuffer ==
    [isNull |-> TRUE, buf |-> <<>>]

SomeBuffer(b) ==
    [isNull |-> FALSE, buf |-> b]

extractWitnessScript(witness) ==
    IF Len(witness) = 0 THEN NoBuffer
    ELSE SomeBuffer(witness[Len(witness)])

(***************************************************************************)
(* P2WSHFakeMultisigDetector.isLikelyFakePubkey                            *)
(***************************************************************************)
\* the loop over data counting zero bytes and the longest zero run
RECURSIVE ZeroScan(_, _, _, _, _)
ZeroScan(data, i, zeroCount, consecutiveZeros, maxConsecutiveZeros) ==
    IF i < Len(data)
    THEN IF At(data, i) = 0
         THEN ZeroScan(data, i + 1, zeroCount + 1, consecutiveZeros + 1,
                       IF consecutiveZeros + 1 > maxConsecutiveZeros
                       THEN consecutiveZeros + 1 ELSE maxConsecutiveZeros)
         ELSE ZeroScan(data, i + 1, zeroCount, 0, maxConsecutiveZeros)
    ELSE [zeroCount |-> zeroCount, maxConsecutiveZeros |-> maxConsecutiveZeros]

\* the loop over data counting positions where four equal bytes start
RECURSIVE RepeatScan(_, _, _)
RepeatScan(data, i, repeatingPatterns) ==
    IF i < Len(data) - 3
    THEN RepeatScan(data, i + 1,
                    IF /\ At(data, i) = At(data, i + 1)
                       /\ At(data, i) = At(data, i + 2)
                       /\ At(data, i) = At(data, i + 3)
                    THEN repeatingPatterns + 1 ELSE repeatingPatterns)
    ELSE repeatingPatterns

\* variant: only the zero bytes are looked at
isLikelyFakePubkeyZerosOnly(pubkey) ==
    IF Len(pubkey) # PubkeyLen THEN FALSE
    ELSE IF At(pubkey, 0) # 2 /\ At(pubkey, 0) # 3 THEN FALSE
    ELSE LET z == ZeroScan(SliceFrom(pubkey, 1), 0, 0, 0, 0)
         IN  z.maxConsecutiveZeros > MaxConsecutiveZeros \/ z.zeroCount > MaxZeroCount

isLikelyFakePubkey(pubkey) ==
    IF Len(pubkey) # PubkeyLen THEN FALSE
    ELSE IF At(pubkey, 0) # 2 /\ At(pubkey, 0) # 3 THEN FALSE
    ELSE LET data == SliceFrom(pubkey, 1)
             z == ZeroScan(data, 0, 0, 0, 0)
         IN  IF z.maxConsecutiveZeros > MaxConsecutiveZeros \/ z.zeroCount > MaxZeroCount
             THEN TRUE
             ELSE RepeatScan(data, 0, 0) > MaxRepeatingPatterns

(***************************************************************************)
(* P2WSHFakeMultisigDetector.analyzeWitnessScript                          *)
(***************************************************************************)
\* the while loop collecting the pushed pubkeys, from offset i
RECURSIVE PubkeyWalk(_, _, _)
PubkeyWalk(script, i, pubkeys) ==
    IF i < Len(script) - 2
    THEN LET opcode == At(script, i)
         IN  IF opcode = OP_PUSH33
             THEN PubkeyWalk(script, i + 34, Append(pubkeys, Slice(script, i + 1, i + 34)))
             ELSE IF opcode >= OP_1 /\ opcode <= OP_16
             THEN PubkeyWalk(script, i + 1, pubkeys)
             ELSE IF opcode = OP_CHECKMULTISIG
             THEN pubkeys
             ELSE PubkeyWalk(script, i + 1, pubkeys)
    ELSE pubkeys

\* the for loop counting the pubkeys that look fake
RECURSIVE CountFake(_, _)
CountFake(pubkeys, k) ==
    IF k > Len(pubkeys) THEN 0
    ELSE LET pubkey == pubkeys[k]
             fake == /\ Len(pubkey) = PubkeyLen
                     /\ At(pubkey, 0) \in {2, 3}
                     /\ isLikelyFakePubkey(pubkey)
         IN  (IF fake THEN 1 ELSE 0) + CountFake(pubkeys, k + 1)

\* variant: the ratio rule already applies to 3 pubkeys
SuspicionRuleFromThree(pubkeyCount, fakePubkeyCount) ==
    \/ pubkeyCount >= RatioMinPubkeys /\ 2 * fakePubkeyCount > pubkeyCount
    \/ pubkeyCount > MaxPlainPubkeys

\* variant: many pubkeys are suspicious only if some of them look fake
SuspicionRuleNeedsFake(pubkeyCount, fakePubkeyCount) ==
    \/ pubkeyCount > RatioMinPubkeys /\ 2 * fakePubkeyCount > pubkeyCount
    \/ pubkeyCount > MaxPlainPubkeys /\ fakePubkeyCount > 0

\* isSuspicious after the two trailing if statements
SuspicionRule(pubkeyCount, fakePubkeyCount) ==
    LET afterRatio == IF pubkeyCount > RatioMinPubkeys /\ 2 * fakePubkeyCount > pubkeyCount
                      THEN TRUE ELSE FALSE
    IN  IF pubkeyCount > MaxPlainPubkeys THEN TRUE ELSE afterRatio

analyzeWitnessScript(script) ==
    LET empty == [isSuspicious |-> FALSE, pubkeyCount |-> 0, fakePubkeyCount |-> 0,
                  hasCheckmultisig |-> FALSE, scriptSize |-> Len(script)]
    IN  IF Len(script) = 0 THEN empty
        ELSE IF At(script, Len(script) - 1) # OP_CHECKMULTISIG THEN empty
        ELSE LET pubkeys == PubkeyWalk(script, 1, <<>>)
                 fakes == CountFake(pubkeys, 1)
             IN  [isSuspicious |-> SuspicionRule(Len(pubkeys), fakes),
                  pubkeyCount |-> Len(pubkeys),
                  fakePubkeyCount |-> fakes,
                  hasCheckmultisig |-> TRUE,
                  scriptSize |-> Len(script)]

(***************************************************************************)
(* P2WSHFakeMultisigDetector.detect                                        *)
(***************************************************************************)
\* variant: only an absent or empty witness is skipped
SkipsInputOnlyIfEmpty(input) ==
    ~input.hasWitness \/ Len(input.witness) = 0

\* !input.witness || input.witness.length < 3
SkipsInput(input) ==
    ~input.hasWitness \/ Len(input.witness) < MinWitnessItems

\* variant: a script that does not end in OP_CHECKMULTISIG is skipped as well
SkipsScriptUnlessCheckmultisig(witnessScript) ==
    \/ witnessScript.isNull
    \/ Len(witnessScript.buf) = 0
    \/ At(witnessScript.buf, Len(witnessScript.buf) - 1) # OP_CHECKMULTISIG

\* !witnessScript: only null is falsy, an empty Buffer is not
SkipsScript(witnessScript) ==
    witnessScript.isNull

\* the for loop over tx.inputs, from input k; analyses records every call of
\* analyzeWitnessScript in order
RECURSIVE DetectLoop(_, _, _)
DetectLoop(inputs, k, acc) ==
    IF k > Len(inputs) THEN acc
    ELSE LET input == inputs[k]
         IN  IF SkipsInput(input)
             THEN DetectLoop(inputs, k + 1, acc)
             ELSE LET witnessScript == extractWitnessScript(input.witness)
                  IN  IF SkipsScript(witnessScript)
                      THEN DetectLoop(inputs, k + 1, acc)
                      ELSE LET analysis == analyzeWitnessScript(witnessScript.buf)
                               counted == [acc EXCEPT !.totalP2WSH = @ + 1,
                                                      !.analyses = Append(@, analysis)]
                           IN  IF analysis.isSuspicious
                               THEN DetectLoop(inputs, k + 1,
                                        [counted EXCEPT
                                            !.suspiciousCount = @ + 1,
                                            !.details = Append(@,
                                                [txid |-> input.txid, vout |-> input.vout,
                                                 analysis |-> analysis])])
                               ELSE DetectLoop(inputs, k + 1, counted)

\* variant: the ratio is taken the other way round
P2WSHConfidenceInverted(suspiciousCount, totalP2WSH) ==
    IF suspiciousCount > 0 THEN Percent(totalP2WSH, suspiciousCount) ELSE Num(0)

\* the confidence returned when at least one input is suspicious
P2WSHConfidence(suspiciousCount, totalP2WSH) ==
    IF totalP2WSH > 0 THEN Percent(suspiciousCount, totalP2WSH) ELSE Num(0)

\* detect(tx) with its local variables: result is the DetectionResult returned
P2WSHDetect(t) ==
    LET acc == DetectLoop(t.inputs, 1,
                   [suspiciousCount |-> 0, totalP2WSH |-> 0, details |-> <<>>,
                    analyses |-> <<>>])
        result == IF acc.suspiciousCount = 0
                  THEN [detected |-> FALSE, confidence |-> Num(0),
                        reason |-> "No suspicious P2WSH patterns found",
                        details |-> <<>>]
                  ELSE [detected |-> TRUE,
                        confidence |-> P2WSHConfidence(acc.suspiciousCount, acc.totalP2WSH),
                        reason |-> "Detected suspicious P2WSH CHECKMULTISIG patterns with fake pubkeys",
                        details |-> acc.details]
    IN  [result |-> result, suspiciousCount |-> acc.suspiciousCount,
         totalP2WSH |-> acc.totalP2WSH, analyses |-> acc.analyses]

(***************************************************************************)
(* TransactionParser.extractOpReturnData                                   *)
(***************************************************************************)
extractOpReturnData(script) ==
    IF Len(script) = 0 \/ At(script, 0) # OP_RETURN THEN NoBuffer
    ELSE IF 1 >= Len(script) THEN SomeBuffer(<<>>)
    ELSE LET pushOpcode == At(script, 1)
             offset == IF pushOpcode >= 1 /\ pushOpcode <= MaxDirectPush THEN 1 + 1
                       ELSE IF pushOpcode = OP_PUSHDATA1 THEN 1 + 2
                       ELSE IF pushOpcode = OP_PUSHDATA2 THEN 1 + 3
                       ELSE IF pushOpcode = OP_PUSHDATA4 THEN 1 + 5
                       ELSE 1
         IN  SomeBuffer(SliceFrom(script, offset))

(***************************************************************************)
(* ChainedOpReturnDetector.detect                                          *)
(***************************************************************************)
\* const details = {}
NoDetails ==
    [hasMagicPrefix |-> FALSE, hasChunk |-> FALSE, chunkIndex |-> 0, totalChunks |-> 0,
     hasContinuationOutput |-> FALSE]

\* the for loop over opReturnOutputs looking for the magic prefix 01 bc
RECURSIVE MagicLoop(_, _, _)
MagicLoop(opReturnOutputs, i, acc) ==
    IF i >= Len(opReturnOutputs) THEN acc
    ELSE LET data == extractOpReturnData(At(opReturnOutputs, i).scriptPubKey)
         IN  IF data.isNull THEN MagicLoop(opReturnOutputs, i + 1, acc)
             ELSE IF /\ Len(data.buf) >= 2
                     /\ At(data.buf, 0) = 1
                     /\ At(data.buf, 1) = 188
             THEN MagicLoop(opReturnOutputs, i + 1,
                      IF Len(data.buf) >= 4
                      THEN [acc EXCEPT !.hasMagicPrefix = TRUE, !.hasChunk = TRUE,
                                       !.chunkIndex = At(data.buf, 2),
                                       !.totalChunks = At(data.buf, 3)]
                      ELSE [acc EXCEPT !.hasMagicPrefix = TRUE])
             ELSE MagicLoop(opReturnOutputs, i + 1, acc)

\* data ? data.length : 0
PayloadLength(out) ==
    LET data == extractOpReturnData(out.scriptPubKey)
    IN  IF data.isNull THEN 0 ELSE Len(data.buf)

\* Math.max over the payload lengths of a non-empty list
RECURSIVE LargestOpReturn(_)
LargestOpReturn(opReturnOutputs) ==
    IF Len(opReturnOutputs) = 1 THEN PayloadLength(opReturnOutputs[1])
    ELSE LET rest == LargestOpReturn(Tail(opReturnOutputs))
             first == PayloadLength(opReturnOutputs[1])
         IN  IF first > rest THEN first ELSE rest

\* tx.outputs.length >= 2 && tx.outputs.some(out => out.value > 0 && out.value < 15000)
HasContinuationOutput(outputs) ==
    /\ Len(outputs) >= 2
    /\ \E k \in 1..Len(outputs) :
          outputs[k].value > 0 /\ outputs[k].value < ContinuationLimit

\* variant: the oversize finding is looked at before the chain pattern
OpReturnVerdictOversizeFirst(hasMagicPrefix, hasChainPattern, opReturnOutputs, details) ==
    IF hasMagicPrefix
    THEN [detected |-> TRUE, details |-> details, confidence |-> Num(MagicConfidence),
          reason |-> "Detected knotwork magic prefix (444) in OP_RETURN data"]
    ELSE IF Len(opReturnOutputs) > 0 /\ LargestOpReturn(opReturnOutputs) > StandardOpReturnSize
    THEN [detected |-> TRUE, confidence |-> Num(OversizeConfidence),
          reason |-> "OP_RETURN data exceeds standard size",
          opReturnSize |-> LargestOpReturn(opReturnOutputs)]
    ELSE IF hasChainPattern
    THEN [detected |-> TRUE, details |-> details, confidence |-> Num(ChainConfidence),
          reason |-> "Detected chained OP_RETURN pattern with continuation output"]
    ELSE [detected |-> FALSE, confidence |-> Num(0),
          reason |-> "No suspicious OP_RETURN patterns detected"]

\* the result chosen from the three findings
OpReturnVerdict(hasMagicPrefix, hasChainPattern, opReturnOutputs, details) ==
    IF hasMagicPrefix \/ hasChainPattern
    THEN [detected |-> TRUE, details |-> details,
          confidence |-> IF hasMagicPrefix THEN Num(MagicConfidence) ELSE Num(ChainConfidence),
          reason |-> IF hasMagicPrefix
                     THEN "Detected knotwork magic prefix (444) in OP_RETURN data"
                     ELSE "Detected chained OP_RETURN pattern with continuation output"]
    ELSE IF Len(opReturnOutputs) > 0 /\ LargestOpReturn(opReturnOutputs) > StandardOpReturnSize
    THEN [detected |-> TRUE, confidence |-> Num(OversizeConfidence),
          reason |-> "OP_RETURN data exceeds standard size",
          opReturnSize |-> LargestOpReturn(opReturnOutputs)]
    ELSE [detected |-> FALSE, confidence |-> Num(0),
          reason |-> "No suspicious OP_RETURN patterns detected"]

\* variant: no output is filtered out
IsOpReturnOutputUnfiltered(out) ==
    TRUE

\* out => out.scriptPubKeyType === 'nulldata'
IsOpReturnOutput(out) ==
    out.scriptPubKeyType = "nulldata"

\* detect(tx) with its local variables: result is the DetectionResult returned
OpReturnDetect(t) ==
    LET opReturnOutputs == SelectSeq(t.outputs, IsOpReturnOutput)
    IN  IF Len(opReturnOutputs) = 0
        THEN [result |-> [detected |-> FALSE, confidence |-> Num(0),
                          reason |-> "No OP_RETURN outputs found"],
              opReturnOutputs |-> opReturnOutputs,
              hasMagicPrefix |-> FALSE, hasChainPattern |-> FALSE,
              details |-> NoDetails]
        ELSE LET magic == MagicLoop(opReturnOutputs, 0, NoDetails)
                 hasChainPattern == HasContinuationOutput(t.outputs)
                                    /\ Len(opReturnOutputs) > 0
             IN  [result |-> OpReturnVerdict(magic.hasMagicPrefix, hasChainPattern,
                                 opReturnOutputs,
                                 [magic EXCEPT !.hasContinuationOutput = hasChainPattern]),
                  opReturnOutputs |-> opReturnOutputs,
                  hasMagicPrefix |-> magic.hasMagicPrefix,
                  hasChainPattern |-> hasChainPattern,
                  details |-> magic]

(***************************************************************************)
(* Scoring callbacks registered with addJSFilter.  A callback is known to  *)
(* the engine only by what it returns, or throws, when called.             *)
(***************************************************************************)
\* examples/filters: inputs with more than 10 witness items
highWitnessFilter(t) ==
    LET suspiciousInputs ==
            Cardinality({k \in 1..Len(t.inputs) :
                            t.inputs[k].hasWitness /\ Len(t.inputs[k].witness) > 10})
    IN  [threw |-> FALSE,
         accept |-> suspiciousInputs = 0,
         score |-> IF suspiciousInputs > 0 THEN Num(60) ELSE Num(0),
         message |-> IF suspiciousInputs > 0
                     THEN "Detected inputs with excessive witness data (>10 items)"
                     ELSE "Normal witness data"]

\* filter(tx): the FilterResult the callback returns, or threw
ApplyFilter(filter, t) ==
    IF filter.kind = "highWitnessFilter" THEN highWitnessFilter(t)
    ELSE IF filter.kind = "throws"
    THEN [threw |-> TRUE, accept |-> TRUE, score |-> Num(0), message |-> "thrown"]
    ELSE [threw |-> FALSE, accept |-> filter.accept, score |-> Num(filter.score),
          message |-> "constant"]

(***************************************************************************)
(* FilterEngine.evaluateTransaction                                        *)
(***************************************************************************)
\* variant: the total is overwritten instead of added to
AccumulateOverwrites(acc, result) ==
    [acc EXCEPT !.detections = Append(@, result),
                !.totalScore = result.confidence]

\* detections.push(result); totalScore += result.confidence
Accumulate(acc, result) ==
    [acc EXCEPT !.detections = Append(@, result),
                !.totalScore = NumAdd(@, result.confidence)]

\* variant: the enable flag is not looked at
AfterDetectorIgnoresFlag(acc, enabled, result) ==
    IF result.detected THEN Accumulate(acc, result) ELSE acc

\* a built-in detector is run if enabled; its result is accumulated if it detected
AfterDetector(acc, enabled, result) ==
    IF enabled /\ result.detected THEN Accumulate(acc, result) ELSE acc

\* variant: a callback's score counts whatever it accepts
RECURSIVE FilterLoopIgnoresAccept(_, _, _, _)
FilterLoopIgnoresAccept(filters, k, t, acc) ==
    IF k > Len(filters) THEN acc
    ELSE LET result == ApplyFilter(filters[k], t)
             called == [acc EXCEPT !.invoked = Append(@, k)]
         IN  IF result.threw THEN [called EXCEPT !.threw = TRUE]
             ELSE FilterLoopIgnoresAccept(filters, k + 1, t,
                      Accumulate(called, [detected |-> TRUE, confidence |-> result.score,
                                          reason |-> result.message]))

\* the for loop over this.jsFilters, from callback k; invoked lists the
\* callbacks called, in order; a throw leaves the loop and the method
RECURSIVE FilterLoop(_, _, _, _)
FilterLoop(filters, k, t, acc) ==
    IF k > Len(filters) THEN acc
    ELSE LET result == ApplyFilter(filters[k], t)
             called == [acc EXCEPT !.invoked = Append(@, k)]
         IN  IF result.threw THEN [called EXCEPT !.threw = TRUE]
             ELSE IF ~result.accept
             THEN FilterLoop(filters, k + 1, t,
                      Accumulate(called, [detected |-> TRUE, confidence |-> result.score,
                                          reason |-> result.message]))
             ELSE FilterLoop(filters, k + 1, t, called)

\* totalScore >= this.config.threshold
ShouldReject(totalScore, threshold) ==
    NumGE(totalScore, threshold)

\* const detections = []; let totalScore = 0
StartOfEvaluation ==
    [threw |-> FALSE, detections |-> <<>>, totalScore |-> Num(0), invoked |-> <<>>]

\* one iteration of the for loop over this.jsFilters, for callback k
FilterStep(filters, k, t, acc) ==
    LET result == ApplyFilter(filters[k], t)
        called == [acc EXCEPT !.invoked = Append(@, k)]
    IN  IF result.threw THEN [called EXCEPT !.threw = TRUE]
        ELSE IF ~result.accept
        THEN Accumulate(called, [detected |-> TRUE, confidence |-> result.score,
                                 reason |-> result.message])
        ELSE called

\* the return statement, or the exception of a callback leaving the method
FilterResultOf(cfg, done) ==
    LET shouldReject == ShouldReject(done.totalScore, cfg.threshold)
    IN  IF done.threw
        THEN [called |-> TRUE, threw |-> TRUE, invoked |-> done.invoked]
        ELSE [called |-> TRUE, threw |-> FALSE,
              accept |-> ~shouldReject,
              score |-> done.totalScore,
              detections |-> done.detections,
              message |-> [text |-> IF shouldReject THEN "Transaction rejected: exceeds threshold"
                                    ELSE "Transaction accepted: below threshold",
                           score |-> toFixed2(done.totalScore),
                           threshold |-> cfg.threshold],
              invoked |-> done.invoked]

\* the FilterResult returned, or threw when a callback's exception leaves the method
evaluateTransaction(cfg, filters, t) ==
    LET start == StartOfEvaluation
        afterP2WSH == AfterDetector(start, cfg.enableP2WSHDetection, P2WSHDetect(t).result)
        afterOpReturn == AfterDetector(afterP2WSH, cfg.enableOpReturnDetection,
                                       OpReturnDetect(t).result)
        done == FilterLoop(filters, 1, t, afterOpReturn)
    IN  FilterResultOf(cfg, done)

(***************************************************************************)
(* The filter command: the configuration built from the command line.      *)
(***************************************************************************)
Digits ==
    <<"0", "1", "2", "3", "4", "5", "6", "7", "8", "9">>

IsDigit(c) ==
    \E v \in 1..10 : Digits[v] = c

DigitValue(c) ==
    (CHOOSE v \in 1..10 : Digits[v] = c) - 1

\* the value of the leading digits of str[k..], given the value read so far
RECURSIVE ParseDigits(_, _, _)
ParseDigits(str, k, value) ==
    IF k <= Len(str) /\ IsDigit(str[k])
    THEN ParseDigits(str, k + 1, 10 * value + DigitValue(str[k]))
    ELSE value

\* parseFloat(str) for an argument without sign, point or exponent: the number
\* its leading digits spell, NaN when it does not start with a digit
parseFloat(str) ==
    IF Len(str) = 0 \/ ~IsDigit(str[1]) THEN NaN
    ELSE Num(ParseDigits(str, 1, 0))

\* const config = { threshold: parseFloat(options.threshold), ... }
CliConfig(options) ==
    [threshold |-> parseFloat(options.threshold),
     enableP2WSHDetection |-> options.p2wsh # FALSE,
     enableOpReturnDetection |-> options.opreturn # FALSE]

(***************************************************************************)
(* Transactions the detectors are run on.  Scripts are built the way the   *)
(* test fixtures build them: an opening opcode, pushes of 33-byte keys,    *)
(* OP_n and OP_CHECKMULTISIG.                                              *)
(***************************************************************************)
\* prefix 0x02 and 32 zero bytes
KeyZero ==
    <<2>> \o Rep(0, 32)

\* prefix 0x03 and 32 distinct non-zero bytes, different for every j
KeyReal(j) ==
    <<3>> \o [i \in 1..32 |-> 35 + ((i * 5 + j * 17) % 130)]

\* prefix 0x02 and bytes that are 0x21 and 0xae in turn, j in the first place
KeyTricky(j) ==
    <<2, j>> \o [i \in 1..31 |-> IF i % 2 = 1 THEN OP_PUSH33 ELSE OP_CHECKMULTISIG]

\* n keys of which the first f are KeyZero
Keys(n, f, kind) ==
    [k \in 1..n |-> IF k <= f THEN KeyZero
                    ELSE IF kind = "real" THEN KeyReal(k) ELSE KeyTricky(k)]

Multisig(lead, keys, tail) ==
    lead \o Flatten([k \in 1..Len(keys) |-> <<OP_PUSH33>> \o keys[k]]) \o tail

\* OP_2 <keys> OP_n OP_CHECKMULTISIG
StdScript(n, f, kind) ==
    Multisig(<<OP_1 + 1>>, Keys(n, f, kind), <<OP_1 - 1 + n, OP_CHECKMULTISIG>>)

\* 01 51 <12 zero keys> 5c ae
TestSpamScript ==
    Multisig(<<1, OP_1>>, Keys(12, 12, "real"), <<92, OP_CHECKMULTISIG>>)

\* <174 blocks> OP_CHECKSEQUENCEVERIFY OP_DROP OP_2 <12 keys> OP_12 OP_CHECKMULTISIG
TimelockScript ==
    Multisig(<<2, 174, 0, 178, 117, OP_1 + 1>>, Keys(12, 0, "real"),
             <<92, OP_CHECKMULTISIG>>)

\* 12 zero keys under OP_CHECKSIG (0xac): not CHECKMULTISIG-shaped
NonMultisigScript ==
    Multisig(<<OP_1 + 1>>, Keys(12, 12, "real"), <<92, 172>>)

ScriptPool ==
    { StdScript(3, 3, "real"), StdScript(4, 2, "real"), StdScript(4, 3, "real"),
      StdScript(10, 0, "real"), StdScript(11, 0, "real"), StdScript(12, 0, "tricky"),
      TestSpamScript, TimelockScript, NonMultisigScript, <<>> }

Input(w) ==
    [txid |-> "aa", vout |-> 0, hasWitness |-> TRUE, witness |-> w]

\* an input of a non-segwit spend: witness is undefined
NoWitnessInput ==
    [txid |-> "aa", vout |-> 0, hasWitness |-> FALSE, witness |-> <<>>]

\* 4 zero keys under OP_CHECKSIG (0xac): not CHECKMULTISIG-shaped
NonMultisigScript4 ==
    Multisig(<<OP_1 + 1>>, Keys(4, 4, "real"), <<84, 172>>)

Witness3(s) ==
    Input(<<(<<0>>), (<<0>>), s>>)

\* inputs whose combinations are counted by detect
InputPool ==
    { NoWitnessInput, Input(<<>>), Input(<<(<<0>>), StdScript(4, 3, "real")>>),
      Witness3(StdScript(4, 3, "real")), Witness3(StdScript(4, 2, "real")),
      Witness3(StdScript(3, 3, "real")),
      Witness3(NonMultisigScript4), Witness3(<<>>) }

SeqsUpTo(S, n) ==
    UNION { [1..k -> S] : k \in 0..n }

Tx(ins, outs) ==
    [inputs |-> ins, outputs |-> outs]

P2WSHTxs ==
    { Tx(ins, <<>>) : ins \in SeqsUpTo(InputPool, MaxInputs) }
    \cup { Tx(<<Witness3(s)>>, <<>>) : s \in ScriptPool }
    \cup { Tx(<<Input(<<(<<0>>), s>>)>>, <<>>) : s \in ScriptPool }

(***************************************************************************)
(* Outputs.  OP_RETURN scripts are 0x6a, a push header and the payload.    *)
(***************************************************************************)
\* OP_RETURN and a push of data, as create_opreturn_script builds it
OpReturnScript(data) ==
    IF Len(data) <= MaxDirectPush THEN <<OP_RETURN, Len(data)>> \o data
    ELSE <<OP_RETURN, OP_PUSHDATA1, Len(data)>> \o data

\* 6a 04 01 bc 00 0a
MagicScript ==
    OpReturnScript(<<1, 188, 0, 10>>)

\* "some_data"
SmallScript ==
    OpReturnScript(<<115, 111, 109, 101, 95, 100, 97, 116, 97>>)

\* n bytes 'X'
DataScript(n) ==
    OpReturnScript(Rep(88, n))

\* the magic prefix heading a payload of 100 bytes
MagicLargeScript ==
    OpReturnScript(<<1, 188, 0, 10>> \o Rep(88, 96))

\* 6a 26 01 bc 00 01 and 9 more bytes: the push declares 38 bytes
TruncatedScript ==
    <<OP_RETURN, 38, 1, 188, 0, 1>> \o Rep(72, 9)

\* 6a 01 58 and 85 more bytes: the push declares 1 byte
TrailingScript ==
    <<OP_RETURN, 1, 88>> \o Rep(89, 85)

\* OP_RETURN OP_1 and 80 bytes: no push follows OP_RETURN
NonPushScript ==
    <<OP_RETURN, OP_1>> \o Rep(88, 80)

\* 00 14 <20 bytes>
KeyhashScript ==
    <<0, 20>> \o Rep(17, 20)

Output(value, script, type) ==
    [value |-> value, scriptPubKey |-> script, scriptPubKeyType |-> type]

Payment(value) ==
    Output(value, KeyhashScript, "witness_v0_keyhash")

OutputPool ==
    { Output(0, MagicScript, "nulldata"), Output(0, SmallScript, "nulldata"),
      Output(546, SmallScript, "nulldata"), Output(0, DataScript(100), "nulldata"),
      Output(546, DataScript(100), "nulldata"),
      Output(0, DataScript(80), "nulldata"), Output(0, DataScript(81), "nulldata"),
      Output(0, MagicLargeScript, "nulldata"), Output(0, MagicScript, "absent"),
      Output(0, TruncatedScript, "nulldata"), Output(0, NonPushScript, "nulldata"),
      Output(0, <<OP_RETURN>>, "nulldata"), Output(0, TrailingScript, "nulldata"),
      Payment(0), Payment(1), Payment(5000), Payment(14999), Payment(15000),
      Payment(50000) }

OpReturnTxs ==
    { Tx(<<NoWitnessInput>>, outs) : outs \in SeqsUpTo(OutputPool, MaxOutputs) }

(***************************************************************************)
(* Transactions, callbacks and command lines the engine is run on.         *)
(***************************************************************************)
\* createNormalTransaction: a key-path spend (signature, pubkey) and two payments
NormalTx ==
    Tx(<<Input(<<Rep(48, 8), KeyZero>>)>>, <<Payment(100000000), Payment(2000)>>)

\* createMockP2WSHSpamTransaction: 12 zero keys, one script-hash output
SpamTx ==
    Tx(<<Witness3(TestSpamScript)>>,
       <<Output(1000, <<0, 32>> \o Rep(187, 32), "witness_v0_scripthash")>>)

\* createMockOpReturnChainTransaction: magic OP_RETURN, 9000 sat continuation, change
ChainTx ==
    Tx(<<NoWitnessInput>>,
       <<Output(0, TruncatedScript, "nulldata"), Payment(9000), Payment(1000000)>>)

\* one suspicious input of two counted
HalfTx ==
    Tx(<<Witness3(StdScript(4, 3, "real")), Witness3(NonMultisigScript4)>>,
       <<Payment(50000)>>)

\* one suspicious input of three counted, and an oversize OP_RETURN
ThirdTx ==
    Tx(<<Witness3(StdScript(4, 3, "real")), Witness3(StdScript(4, 2, "real")),
         Witness3(NonMultisigScript4)>>,
       <<Output(0, DataScript(100), "nulldata")>>)

\* a suspicious input and a magic OP_RETURN
BothTx ==
    Tx(<<Witness3(StdScript(4, 3, "real"))>>,
       <<Output(0, MagicScript, "nulldata"), Payment(50000)>>)

\* an OP_RETURN and a 5000 sat output
ContinuationTx ==
    Tx(<<NoWitnessInput>>, <<Output(0, SmallScript, "nulldata"), Payment(5000)>>)

\* an input with 11 witness items
ManyItemsTx ==
    Tx(<<Input([k \in 1..11 |-> <<0>>])>>, <<Payment(50000)>>)

EngineTxs ==
    { NormalTx, SpamTx, ChainTx, HalfTx, ThirdTx, BothTx, ContinuationTx, ManyItemsTx,
      Tx(<<>>, <<>>) }

FilterPool ==
    { [kind |-> "highWitnessFilter"], [kind |-> "throws"],
      [kind |-> "constant", accept |-> FALSE, score |-> 40],
      [kind |-> "constant", accept |-> TRUE, score |-> 30],
      [kind |-> "constant", accept |-> FALSE, score |-> -20] }

\* --threshold 80 (the default) and a value that is no number
ThresholdArgs ==
    { <<"8", "0">>, <<"a", "b", "c">> }

CliOptions ==
    [threshold : ThresholdArgs, p2wsh : BOOLEAN, opreturn : BOOLEAN]

(***************************************************************************)
(* State.                                                                  *)
(***************************************************************************)
NotCalled ==
    [called |-> FALSE]

\* the callers that evaluate transactions on the one engine
Workers ==
    {"w1", "w2"}

Idle ==
    [pc |-> "idle"]

NoCalls ==
    [w \in Workers |-> Idle]

DefaultConfig ==
    [threshold |-> Num(80), enableP2WSHDetection |-> TRUE,
     enableOpReturnDetection |-> TRUE]

(***************************************************************************)
(* The engine: constructed from a configuration, callbacks are added and   *)
(* transactions evaluated in any order.  verdict is what the last call     *)
(* returned: a FilterResult from evaluateTransaction, nothing from         *)
(* addJSFilter.                                                            *)
(***************************************************************************)
Init ==
    /\ config \in { CliConfig(o) : o \in CliOptions }
    /\ jsFilters = <<>>
    /\ tx = Tx(<<>>, <<>>)
    /\ op = "init"
    /\ verdict = NotCalled
    /\ p2wsh = NotCalled
    /\ opret = NotCalled
    /\ bytes = <<>>
    /\ decoded = NotCalled
    /\ firstCall = NotCalled
    /\ calls = NoCalls

\* getStatistics(): { config, customFilters: this.jsFilters.length }
getStatistics ==
    [config |-> config, customFilters |-> Len(jsFilters)]

\* variant: the callback replaces the registry
AddJSFilterReplacing(filter) ==
    /\ Len(jsFilters) < MaxFilters
    /\ jsFilters' = <<filter>>
    /\ op' = "addJSFilter"
    /\ verdict' = NotCalled
    /\ UNCHANGED <<config, tx, p2wsh, opret, bytes, decoded, firstCall, calls>>

AddJSFilter(filter) ==
    /\ Len(jsFilters) < MaxFilters
    /\ jsFilters' = Append(jsFilters, filter)
    /\ op' = "addJSFilter"
    /\ verdict' = NotCalled
    /\ UNCHANGED <<config, tx, p2wsh, opret, bytes, decoded, firstCall, calls>>

EvaluateTransaction(t) ==
    /\ tx' = t
    /\ verdict' = evaluateTransaction(config, jsFilters, t)
    /\ op' = "evaluateTransaction"
    /\ UNCHANGED <<config, jsFilters, p2wsh, opret, bytes, decoded, firstCall, calls>>

Next ==
    \/ \E filter \in FilterPool : AddJSFilter(filter)
    \/ \E t \in EngineTxs : EvaluateTransaction(t)

Spec ==
    Init /\ [][Next]_vars

(***************************************************************************)
(* A direct call of P2WSHFakeMultisigDetector.detect on a transaction.     *)
(***************************************************************************)
InitP2WSH ==
    /\ config = DefaultConfig
    /\ jsFilters = <<>>
    /\ tx \in P2WSHTxs
    /\ op = "init"
    /\ verdict = NotCalled
    /\ p2wsh = NotCalled
    /\ opret = NotCalled
    /\ bytes = <<>>
    /\ decoded = NotCalled
    /\ firstCall = NotCalled
    /\ calls = NoCalls

CallP2WSHDetect ==
    /\ op = "init"
    /\ op' = "P2WSHFakeMultisigDetector.detect"
    /\ p2wsh' = [called |-> TRUE] @@ P2WSHDetect(tx)
    /\ UNCHANGED <<config, jsFilters, tx, verdict, opret, bytes, decoded, firstCall, calls>>

NextP2WSH ==
    CallP2WSHDetect

SpecP2WSH ==
    InitP2WSH /\ [][NextP2WSH]_vars

(***************************************************************************)
(* A direct call of ChainedOpReturnDetector.detect on a transaction.       *)
(***************************************************************************)
InitOpReturn ==
    /\ config = DefaultConfig
    /\ jsFilters = <<>>
    /\ tx \in OpReturnTxs
    /\ op = "init"
    /\ verdict = NotCalled
    /\ p2wsh = NotCalled
    /\ opret = NotCalled
    /\ bytes = <<>>
    /\ decoded = NotCalled
    /\ firstCall = NotCalled
    /\ calls = NoCalls

CallOpReturnDetect ==
    /\ op = "init"
    /\ op' = "ChainedOpReturnDetector.detect"
    /\ opret' = [called |-> TRUE] @@ OpReturnDetect(tx)
    /\ UNCHANGED <<config, jsFilters, tx, verdict, p2wsh, bytes, decoded, firstCall, calls>>

NextOpReturn ==
    CallOpReturnDetect

SpecOpReturn ==
    InitOpReturn /\ [][NextOpReturn]_vars

(***************************************************************************)
(* Either detector called directly on a transaction.                       *)
(***************************************************************************)
InitDetectors ==
    /\ config = DefaultConfig
    /\ jsFilters = <<>>
    /\ tx \in P2WSHTxs \cup OpReturnTxs \cup EngineTxs
    /\ op = "init"
    /\ verdict = NotCalled
    /\ p2wsh = NotCalled
    /\ opret = NotCalled
    /\ bytes = <<>>
    /\ decoded = NotCalled
    /\ firstCall = NotCalled
    /\ calls = NoCalls

NextDetectors ==
    \/ CallP2WSHDetect
    \/ CallOpReturnDetect

SpecDetectors ==
    InitDetectors /\ [][NextDetectors]_vars

(***************************************************************************)
(* The script decoding routines applied to a byte sequence: scripts of     *)
(* every length up to MaxFuzzLen over the bytes the routines test for, the *)
(* fixture scripts, and a multisig script cut at every length up to MaxCut.*)
(***************************************************************************)
\* OP_RETURN, push of 1, OP_PUSHDATA1, OP_PUSHDATA2, push of 33, OP_CHECKMULTISIG, 0
FuzzBytes ==
    {OP_RETURN, 1, OP_PUSHDATA1, OP_PUSHDATA2, OP_PUSH33, OP_CHECKMULTISIG, 0}

\* a 33-byte candidate: the prefix, a run of z zero bytes, s zero bytes each
\* behind a distinct non-zero byte, distinct filler bytes, and a run of r
\* bytes 7 at the end
CandidateKey(prefix, z, s, r) ==
    LET scattered == [i \in 1..(2 * s) |-> IF i % 2 = 0 THEN 0 ELSE 50 + i]
        filler == [i \in 1..(PubkeyLen - 1 - z - 2 * s - r) |-> 100 + i]
    IN  <<prefix>> \o Rep(0, z) \o scattered \o filler \o Rep(7, r)

CandidateKeys ==
    { CandidateKey(prefix, c[1], c[2], c[3]) :
        prefix \in {2, 3, 4},
        c \in { c \in {0, 4, 5} \X {0, 6, 7, 10, 11} \X {0, 5, 6} :
                  c[1] + 2 * c[2] + c[3] < PubkeyLen } }

\* a 1-of-1 multisig script over the candidate
OneKeyScript(key) ==
    <<OP_1, OP_PUSH33>> \o key \o <<OP_1, OP_CHECKMULTISIG>>

\* OP_1 00 <key> OP_CHECKMULTISIG OP_1 OP_1 OP_CHECKMULTISIG: 0xae inside the script
InnerCheckmultisigScript ==
    <<OP_1, 0, OP_PUSH33>> \o KeyZero \o <<OP_CHECKMULTISIG, OP_1, OP_1, OP_CHECKMULTISIG>>

\* the first n bytes of the 12-key script, closed by OP_CHECKMULTISIG
CutScript(n) ==
    SubSeq(TestSpamScript, 1, n) \o <<OP_CHECKMULTISIG>>

FuzzScripts ==
    SeqsUpTo(FuzzBytes, MaxFuzzLen)
    \cup ScriptPool
    \cup { CutScript(n) : n \in 0..MaxCut }
    \cup { OneKeyScript(key) : key \in CandidateKeys }
    \cup { MagicScript, SmallScript, DataScript(80), DataScript(100), MagicLargeScript,
           TruncatedScript, TrailingScript, NonPushScript, KeyhashScript,
           InnerCheckmultisigScript,
           <<OP_RETURN, OP_PUSHDATA2, 2, 0, 1, 188>>,
           <<OP_RETURN, OP_PUSHDATA2, 2, 1, 1, 188>>,
           <<OP_RETURN, OP_PUSHDATA4, 3, 0, 0, 0, 1, 188, 7>>,
           <<OP_RETURN, OP_PUSHDATA4, 3, 0, 0, 0, 1, 188, 7, 9, 9>>,
           <<OP_RETURN, OP_PUSHDATA4, 3, 0>> }

\* the indices of script that extractOpReturnData reads, without the guard
\* on offset
extractOpReturnDataReadsUnguarded(s) ==
    IF Len(s) = 0 THEN {}
    ELSE IF At(s, 0) # OP_RETURN THEN {0}
    ELSE {0, 1}

\* the indices of script that extractOpReturnData reads: script[0], script[offset]
extractOpReturnDataReads(s) ==
    IF Len(s) = 0 THEN {}
    ELSE IF At(s, 0) # OP_RETURN THEN {0}
    ELSE IF 1 >= Len(s) THEN {0}
    ELSE {0, 1}

\* the indices the while loop reads as opcodes, from offset i
RECURSIVE PubkeyWalkReads(_, _)
PubkeyWalkReads(s, i) ==
    IF i < Len(s) - 2
    THEN LET opcode == At(s, i)
         IN  {i} \cup (IF opcode = OP_PUSH33 THEN PubkeyWalkReads(s, i + 34)
                       ELSE IF opcode >= OP_1 /\ opcode <= OP_16 THEN PubkeyWalkReads(s, i + 1)
                       ELSE IF opcode = OP_CHECKMULTISIG THEN {}
                       ELSE PubkeyWalkReads(s, i + 1))
    ELSE {}

\* variant: only the two recognised opcodes advance i
AdvanceOnlyKnown(opcode, i) ==
    IF opcode = OP_PUSH33 THEN i + 34
    ELSE IF opcode >= OP_1 /\ opcode <= OP_16 THEN i + 1
    ELSE i

\* i after an iteration that does not break: i += 34 after 0x21, else i++
Advance(opcode, i) ==
    IF opcode = OP_PUSH33 THEN i + 34
    ELSE IF opcode >= OP_1 /\ opcode <= OP_16 THEN i + 1
    ELSE i + 1

\* the values of i at which the while loop begins an iteration, from offset
\* i, for at most fuel iterations; exhausted when the loop would go on
RECURSIVE PubkeyWalkOffsets(_, _, _)
PubkeyWalkOffsets(s, i, fuel) ==
    IF i < Len(s) - 2
    THEN IF fuel = 0 THEN [offsets |-> <<>>, exhausted |-> TRUE, broke |-> FALSE]
         ELSE LET opcode == At(s, i)
              IN  IF opcode # OP_PUSH33 /\ ~(opcode >= OP_1 /\ opcode <= OP_16)
                     /\ opcode = OP_CHECKMULTISIG
                  THEN [offsets |-> <<i>>, exhausted |-> FALSE, broke |-> TRUE]
                  ELSE LET rest == PubkeyWalkOffsets(s, Advance(opcode, i), fuel - 1)
                       IN  [rest EXCEPT !.offsets = <<i>> \o @]
    ELSE [offsets |-> <<>>, exhausted |-> FALSE, broke |-> FALSE]

\* the indices of script that analyzeWitnessScript reads: the last byte and
\* the opcodes of the walk
analyzeWitnessScriptReads(s) ==
    IF Len(s) = 0 THEN {}
    ELSE IF At(s, Len(s) - 1) # OP_CHECKMULTISIG THEN {Len(s) - 1}
    ELSE {Len(s) - 1} \cup PubkeyWalkReads(s, 1)

InitDecode ==
    /\ config = DefaultConfig
    /\ jsFilters = <<>>
    /\ tx = Tx(<<>>, <<>>)
    /\ op = "init"
    /\ verdict = NotCalled
    /\ p2wsh = NotCalled
    /\ opret = NotCalled
    /\ bytes \in FuzzScripts
    /\ decoded = NotCalled
    /\ firstCall = NotCalled
    /\ calls = NoCalls

CallExtractOpReturnData ==
    /\ op = "init"
    /\ op' = "extractOpReturnData"
    /\ decoded' = [called |-> TRUE,
                   data |-> extractOpReturnData(bytes),
                   reads |-> extractOpReturnDataReads(bytes)]
    /\ UNCHANGED <<config, jsFilters, tx, verdict, p2wsh, opret, bytes, firstCall, calls>>

CallAnalyzeWitnessScript ==
    /\ op = "init"
    /\ op' = "analyzeWitnessScript"
    /\ decoded' = [called |-> TRUE,
                   analysis |-> analyzeWitnessScript(bytes),
                   pubkeys |-> IF Len(bytes) > 0 /\ At(bytes, Len(bytes) - 1) = OP_CHECKMULTISIG
                               THEN PubkeyWalk(bytes, 1, <<>>) ELSE <<>>,
                   reads |-> analyzeWitnessScriptReads(bytes),
                   walk |-> IF Len(bytes) > 0 /\ At(bytes, Len(bytes) - 1) = OP_CHECKMULTISIG
                            THEN PubkeyWalkOffsets(bytes, 1, Len(bytes) + 1)
                            ELSE PubkeyWalkOffsets(<<>>, 1, 1)]
    /\ UNCHANGED <<config, jsFilters, tx, verdict, p2wsh, opret, bytes, firstCall, calls>>

NextDecode ==
    \/ CallExtractOpReturnData
    \/ CallAnalyzeWitnessScript

SpecDecode ==
    InitDecode /\ [][NextDecode]_vars

(***************************************************************************)
(* An engine that, once populated with callbacks, evaluates transactions   *)
(* one after the other.  firstCall remembers the first evaluation: its         *)
(* transaction, the verdict it returned, and whether another transaction   *)
(* has been evaluated since.                                               *)
(***************************************************************************)
RepeatTxs ==
    { NormalTx, SpamTx, ThirdTx, ContinuationTx }

Register(filter) ==
    /\ ~firstCall.called
    /\ AddJSFilter(filter)

\* variant: the running total is kept from one evaluation to the next
EvaluateAgainAccumulating(t) ==
    /\ tx' = t
    /\ verdict' = LET v == evaluateTransaction(config, jsFilters, t)
                  IN  IF verdict.called /\ ~verdict.threw /\ ~v.threw
                      THEN [v EXCEPT !.score = NumAdd(@, verdict.score)]
                      ELSE v
    /\ op' = "evaluateTransaction"
    /\ firstCall' = IF firstCall.called
                    THEN [firstCall EXCEPT !.other = @ \/ t # firstCall.tx]
                    ELSE [called |-> TRUE, tx |-> t, verdict |-> verdict', other |-> FALSE]
    /\ UNCHANGED <<config, jsFilters, p2wsh, opret, bytes, decoded, calls>>

EvaluateAgain(t) ==
    /\ tx' = t
    /\ verdict' = evaluateTransaction(config, jsFilters, t)
    /\ op' = "evaluateTransaction"
    /\ firstCall' = IF firstCall.called
                    THEN [firstCall EXCEPT !.other = @ \/ t # firstCall.tx]
                    ELSE [called |-> TRUE, tx |-> t, verdict |-> verdict', other |-> FALSE]
    /\ UNCHANGED <<config, jsFilters, p2wsh, opret, bytes, decoded, calls>>

NextRepeat ==
    \/ \E filter \in FilterPool : Register(filter)
    \/ \E t \in RepeatTxs : EvaluateAgain(t)

SpecRepeat ==
    Init /\ [][NextRepeat]_vars

(***************************************************************************)
(* Evaluations in flight at the same time on one engine.  Each call of     *)
(* evaluateTransaction has its own tx, detections and totalScore; the      *)
(* calls advance statement by statement in any interleaving.  The registry *)
(* is populated before the first call begins.                              *)
(***************************************************************************)
ConcurrentTxs ==
    { SpamTx, ThirdTx, ContinuationTx }

ConcurrentFilters ==
    { [kind |-> "highWitnessFilter"], [kind |-> "throws"],
      [kind |-> "constant", accept |-> FALSE, score |-> 40] }

InitConcurrent ==
    /\ config = DefaultConfig
    /\ jsFilters = <<>>
    /\ tx = Tx(<<>>, <<>>)
    /\ op = "init"
    /\ verdict = NotCalled
    /\ p2wsh = NotCalled
    /\ opret = NotCalled
    /\ bytes = <<>>
    /\ decoded = NotCalled
    /\ firstCall = NotCalled
    /\ calls = NoCalls

Populate(filter) ==
    /\ calls = NoCalls
    /\ AddJSFilter(filter)

Step(w, label, call) ==
    /\ calls' = [calls EXCEPT ![w] = call]
    /\ op' = label
    /\ UNCHANGED <<config, jsFilters, tx, verdict, p2wsh, opret, bytes, decoded, firstCall>>

\* evaluateTransaction(t) is entered: detections = [], totalScore = 0
Begin(w, t) ==
    /\ calls[w].pc = "idle"
    /\ Step(w, "begin", [pc |-> "p2wsh", tx |-> t, acc |-> StartOfEvaluation, k |-> 1])

RunP2WSH(w) ==
    /\ calls[w].pc = "p2wsh"
    /\ Step(w, "p2wsh",
            [calls[w] EXCEPT !.pc = "opreturn",
                             !.acc = AfterDetector(@, config.enableP2WSHDetection,
                                                   P2WSHDetect(calls[w].tx).result)])

RunOpReturn(w) ==
    /\ calls[w].pc = "opreturn"
    /\ Step(w, "opreturn",
            [calls[w] EXCEPT !.pc = "filters",
                             !.acc = AfterDetector(@, config.enableOpReturnDetection,
                                                   OpReturnDetect(calls[w].tx).result)])

\* variant: totalScore is a field of the engine, shared by the calls in flight
RunFilterSharedTotal(w) ==
    /\ calls[w].pc = "filters"
    /\ calls[w].k <= Len(jsFilters)
    /\ LET shared == IF \E v \in Workers \ {w} : calls[v].pc \in {"opreturn", "filters"}
                     THEN LET v == CHOOSE v \in Workers \ {w} :
                                       calls[v].pc \in {"opreturn", "filters"}
                          IN  [calls[w].acc EXCEPT !.totalScore = calls[v].acc.totalScore]
                     ELSE calls[w].acc
           acc == FilterStep(jsFilters, calls[w].k, calls[w].tx, shared)
       IN  Step(w, "filter",
                IF acc.threw
                THEN [pc |-> "done", tx |-> calls[w].tx, result |-> FilterResultOf(config, acc)]
                ELSE [calls[w] EXCEPT !.acc = acc, !.k = @ + 1])

\* one iteration of the loop over this.jsFilters; a throw ends the call
RunFilter(w) ==
    /\ calls[w].pc = "filters"
    /\ calls[w].k <= Len(jsFilters)
    /\ LET acc == FilterStep(jsFilters, calls[w].k, calls[w].tx, calls[w].acc)
       IN  Step(w, "filter",
                IF acc.threw
                THEN [pc |-> "done", tx |-> calls[w].tx, result |-> FilterResultOf(config, acc)]
                ELSE [calls[w] EXCEPT !.acc = acc, !.k = @ + 1])

\* the loop is over: shouldReject is computed and the FilterResult returned
Return(w) ==
    /\ calls[w].pc = "filters"
    /\ calls[w].k > Len(jsFilters)
    /\ Step(w, "return",
            [pc |-> "done", tx |-> calls[w].tx,
             result |-> FilterResultOf(config, calls[w].acc)])

NextConcurrent ==
    \/ \E filter \in ConcurrentFilters : Populate(filter)
    \/ \E w \in Workers, t \in ConcurrentTxs : Begin(w, t)
    \/ \E w \in Workers : RunP2WSH(w)
    \/ \E w \in Workers : RunOpReturn(w)
    \/ \E w \in Workers : RunFilter(w)
    \/ \E w \in Workers : Return(w)

SpecConcurrent ==
    InitConcurrent /\ [][NextConcurrent]_vars

(***************************************************************************)
(* Properties of the P2WSH detector, checked under SpecP2WSH.              *)
(***************************************************************************)
\* the inputs detect looks at: a witness of at least 3 items
WitnessInputs ==
    {k \in 1..Len(tx.inputs) :
        tx.inputs[k].hasWitness /\ Len(tx.inputs[k].witness) >= 3}

\* the last witness item of input k
LastItem(k) ==
    tx.inputs[k].witness[Len(tx.inputs[k].witness)]

EndsInCheckmultisig(script) ==
    Len(script) > 0 /\ script[Len(script)] = 174

\* a push of 33 bytes lies wholly inside the script at 0-based offset off
PushAt(script, off) ==
    off + 34 <= Len(script) /\ script[off + 1] = 33

\* n pushes of 33 bytes follow each other from offset off
PushRun(script, off, n) ==
    \A j \in 0..(n - 1) : PushAt(script, off + 34 * j)

\* the script holds a run of n pushed 33-byte pubkeys somewhere
ContainsPushes(script, n) ==
    \E off \in 0..(Len(script) - 1) : PushRun(script, off, n)

\* the run of n pushes starts at offset off >= 1, and no byte between offset
\* 1 and the run is 0x21 or 0xae
PushesAfterPlainLead(script, n) ==
    \E off \in 1..(Len(script) - 1) :
        /\ PushRun(script, off, n)
        /\ \A j \in 1..(off - 1) : script[j + 1] \notin {33, 174}

C5_ConfidenceIsFloor ==
    p2wsh.called =>
        /\ p2wsh.result.detected <=> p2wsh.suspiciousCount > 0
        /\ p2wsh.suspiciousCount > 0 =>
               /\ IsInteger(p2wsh.result.confidence)
               /\ p2wsh.result.confidence =
                      Num((100 * p2wsh.suspiciousCount) \div p2wsh.totalP2WSH)

\* C6: a CHECKMULTISIG-shaped script is suspicious exactly when pubkeyCount > 3
\* and fakePubkeyCount > pubkeyCount / 2, or pubkeyCount > 10; 3 fake pubkeys
\* of 3 and 2 of 4 are not suspicious, 3 of 4 are, 10 genuine ones are not.
C6_SuspiciousExactlyByRule ==
    p2wsh.called =>
        /\ \A i \in 1..Len(p2wsh.analyses) :
              LET a == p2wsh.analyses[i]
              IN  a.hasCheckmultisig =>
                     (a.isSuspicious <=>
                         \/ a.pubkeyCount > 3 /\ 2 * a.fakePubkeyCount > a.pubkeyCount
                         \/ a.pubkeyCount > 10)
        /\ \A n \in {3, 4, 10}, f \in {0, 2, 3} :
              tx.inputs = <<Witness3(StdScript(n, f, "real"))>> =>
                 /\ p2wsh.analyses[1].pubkeyCount = n
                 /\ p2wsh.analyses[1].fakePubkeyCount = f
                 /\ p2wsh.analyses[1].isSuspicious <=> (n = 4 /\ f = 3)

\* 3 of 3 fake, 2 of 4 fake and 3 of 4 fake in one transaction
C6_Witness ==
    /\ p2wsh.called
    /\ tx.inputs = <<Witness3(StdScript(3, 3, "real")), Witness3(StdScript(4, 2, "real")),
                     Witness3(StdScript(4, 3, "real"))>>
    /\ p2wsh.analyses[1].fakePubkeyCount = 3
    /\ ~p2wsh.analyses[1].isSuspicious
    /\ ~p2wsh.analyses[2].isSuspicious
    /\ p2wsh.analyses[3].isSuspicious

C8_NoWitnessNotDetected ==
    p2wsh.called /\ WitnessInputs = {} =>
        /\ ~p2wsh.result.detected
        /\ p2wsh.result.confidence = Num(0)

\* an input without witness beside a 2-item witness holding a fake multisig
C8_Witness ==
    /\ p2wsh.called
    /\ tx.inputs = <<NoWitnessInput, Input(<<(<<0>>), StdScript(4, 3, "real")>>)>>
    /\ ~p2wsh.result.detected

(***************************************************************************)
(* Properties of the OP_RETURN detector, checked under SpecOpReturn.       *)
(***************************************************************************)
\* payloads of the scripts that are OP_RETURN, one push and exactly its data
PayloadPool ==
    { <<1, 188, 0, 10>>, <<115, 111, 109, 101, 95, 100, 97, 116, 97>>,
      Rep(88, 100), Rep(88, 80), Rep(88, 81), <<1, 188, 0, 10>> \o Rep(88, 96) }

IsPlainPush(script) ==
    \E data \in PayloadPool : script = OpReturnScript(data)

PayloadOf(script) ==
    CHOOSE data \in PayloadPool : script = OpReturnScript(data)

\* the outputs tagged as OP_RETURN
NulldataOutputs ==
    {k \in 1..Len(tx.outputs) : tx.outputs[k].scriptPubKeyType = "nulldata"}

\* the confidence the priority order gives to the three findings
ByPriority(magic, chain, oversize) ==
    IF magic THEN Num(95) ELSE IF chain THEN Num(60) ELSE IF oversize THEN Num(40)
    ELSE Num(0)

C10_ContinuationIsAnySmallOutput ==
    opret.called /\ NulldataOutputs # {} =>
        (opret.hasChainPattern <=>
            \E k \in 1..Len(tx.outputs) :
                tx.outputs[k].value > 0 /\ tx.outputs[k].value < 15000)

(***************************************************************************)
(* Properties of the engine, checked under Spec.                           *)
(***************************************************************************)
RECURSIVE SumConfidence(_)
SumConfidence(detections) ==
    IF detections = <<>> THEN Num(0)
    ELSE NumAdd(Head(detections).confidence, SumConfidence(Tail(detections)))

\* the scores of the callbacks k.. that do not accept tx
RECURSIVE RejectedScore(_)
RejectedScore(k) ==
    IF k > Len(jsFilters) THEN Num(0)
    ELSE LET r == ApplyFilter(jsFilters[k], tx)
         IN  NumAdd(IF r.accept THEN Num(0) ELSE r.score, RejectedScore(k + 1))

P2WSHShare ==
    IF config.enableP2WSHDetection /\ P2WSHDetect(tx).result.detected
    THEN P2WSHDetect(tx).result.confidence ELSE Num(0)

OpReturnShare ==
    IF config.enableOpReturnDetection /\ OpReturnDetect(tx).result.detected
    THEN OpReturnDetect(tx).result.confidence ELSE Num(0)

Returned ==
    verdict.called /\ ~verdict.threw

\* C1: the verdict has accept = true exactly when score < threshold, for
\* every configuration, set of callbacks and transaction.
C1_AcceptIffScoreBelowThreshold ==
    Returned => (verdict.accept <=> NumLT(verdict.score, config.threshold))

\* C2: the score of a returned verdict is the sum of the P2WSH confidence (if
\* enabled and detected), the OP_RETURN confidence (if enabled and detected)
\* and the scores of the callbacks that returned accept = false; it is the
\* sum of the confidences of the detections; a transaction triggering only
\* the P2WSH detector scores exactly the P2WSH confidence.
C2_ScoreIsSumOfDetections ==
    Returned =>
        /\ verdict.score = NumAdd(NumAdd(P2WSHShare, OpReturnShare), RejectedScore(1))
        /\ verdict.score = SumConfidence(verdict.detections)
        /\ (/\ config.enableP2WSHDetection
            /\ P2WSHDetect(tx).result.detected
            /\ ~OpReturnDetect(tx).result.detected
            /\ \A k \in 1..Len(jsFilters) : ApplyFilter(jsFilters[k], tx).accept)
              => verdict.score = P2WSHDetect(tx).result.confidence

\* one suspicious input of three, an oversize OP_RETURN and a rejecting callback
C2_Witness ==
    /\ Returned
    /\ tx = ThirdTx
    /\ Len(verdict.detections) = 3
    /\ verdict.score = NumAdd(Percent(1, 3), Num(80))

\* C3: a callback that throws is caught and counts as no detection: the
\* remaining callbacks are still called and evaluateTransaction returns a
\* verdict.
C3_ThrowingCallbackIsCaught ==
    verdict.called =>
        /\ ~verdict.threw
        /\ verdict.invoked = [k \in 1..Len(jsFilters) |-> k]

(***************************************************************************)
(* The push that follows OP_RETURN, as the script declares it.             *)
(***************************************************************************)
\* the bytes of the push header after OP_RETURN: 1, 2, 3 or 5; 0 when the
\* second byte is no push opcode or the header itself is cut short
PushHeaderLength(script) ==
    IF Len(script) < 2 \/ script[1] # 106 THEN 0
    ELSE LET opcode == script[2]
             h == IF opcode >= 1 /\ opcode <= 75 THEN 1
                  ELSE IF opcode = 76 THEN 2
                  ELSE IF opcode = 77 THEN 3
                  ELSE IF opcode = 78 THEN 5
                  ELSE 0
         IN  IF h > 0 /\ Len(script) >= 1 + h THEN h ELSE 0

\* the little-endian number in script[from..to]
RECURSIVE LittleEndian(_, _, _)
LittleEndian(script, from, to) ==
    IF from > to THEN 0
    ELSE script[from] + 256 * LittleEndian(script, from + 1, to)

\* N, the number of data bytes the push declares
DeclaredLength(script) ==
    IF PushHeaderLength(script) = 1 THEN script[2]
    ELSE LittleEndian(script, 3, 1 + PushHeaderLength(script))

\* OP_RETURN, a push and at least the N bytes it declares
IsCompletePush(script) ==
    /\ PushHeaderLength(script) > 0
    /\ Len(script) >= 1 + PushHeaderLength(script) + DeclaredLength(script)

\* OP_RETURN and a push that declares more bytes than follow
IsTruncatedPush(script) ==
    /\ PushHeaderLength(script) > 0
    /\ Len(script) < 1 + PushHeaderLength(script) + DeclaredLength(script)

\* the N declared data bytes of a complete push
DeclaredData(script) ==
    SubSeq(script, 2 + PushHeaderLength(script),
           1 + PushHeaderLength(script) + DeclaredLength(script))

\* the length of the payload an OP_RETURN script carries, 0 when it has none
DeclaredPayloadLength(script) ==
    IF IsCompletePush(script) THEN DeclaredLength(script) ELSE 0

CarriesMagic(script) ==
    /\ IsCompletePush(script)
    /\ DeclaredLength(script) >= 2
    /\ SubSeq(DeclaredData(script), 1, 2) = <<1, 188>>

\* the outputs that start with the OP_RETURN opcode
SniffedOutputs ==
    {k \in 1..Len(tx.outputs) :
        Len(tx.outputs[k].scriptPubKey) > 0 /\ tx.outputs[k].scriptPubKey[1] = 106}

\* C11: an output counts as an OP_RETURN output when its type tag says so or
\* when its script starts with 0x6a; an untagged output whose script starts
\* with 0x6a and carries the magic prefix is detected with confidence 95.
C11_UntaggedOpReturnIsSniffed ==
    opret.called =>
        /\ Len(opret.opReturnOutputs) = Cardinality(NulldataOutputs \cup SniffedOutputs)
        /\ (\E k \in SniffedOutputs :
               /\ tx.outputs[k].scriptPubKeyType = "absent"
               /\ CarriesMagic(tx.outputs[k].scriptPubKey))
              => opret.result.detected /\ opret.result.confidence = Num(95)

\* C12: a transaction without an output tagged as OP_RETURN, its output list
\* empty or with outputs of 1 to 14999 satoshis, is not detected: confidence 0.
C12_NoOpReturnNotDetected ==
    opret.called /\ NulldataOutputs = {} =>
        /\ ~opret.result.detected
        /\ opret.result.confidence = Num(0)
        /\ opret.opReturnOutputs = <<>>

\* two small payments and no OP_RETURN
C12_Witness ==
    /\ opret.called
    /\ tx.outputs = <<Payment(5000), Payment(14999)>>
    /\ ~opret.result.detected

\* C13: without magic prefix and without continuation output the confidence
\* is 40 when the largest OP_RETURN payload is longer than 80 bytes and the
\* transaction is not detected (confidence 0) when it is 80 bytes or shorter.
C13_OversizeByPayload ==
    (/\ opret.called
     /\ NulldataOutputs # {}
     /\ \A k \in NulldataOutputs : ~CarriesMagic(tx.outputs[k].scriptPubKey)
     /\ \A k \in 1..Len(tx.outputs) :
            ~(tx.outputs[k].value > 0 /\ tx.outputs[k].value < 15000))
    => IF \E k \in NulldataOutputs : DeclaredPayloadLength(tx.outputs[k].scriptPubKey) > 80
       THEN opret.result.detected /\ opret.result.confidence = Num(40)
       ELSE ~opret.result.detected /\ opret.result.confidence = Num(0)

\* the same for scripts that are OP_RETURN and one complete push, nothing else
OversizeForPlainPushes ==
    (/\ opret.called
     /\ NulldataOutputs # {}
     /\ \A k \in NulldataOutputs : IsPlainPush(tx.outputs[k].scriptPubKey)
     /\ ~opret.hasMagicPrefix
     /\ ~opret.hasChainPattern)
    => IF \E k \in NulldataOutputs : Len(PayloadOf(tx.outputs[k].scriptPubKey)) > 80
       THEN opret.result.detected /\ opret.result.confidence = Num(40)
       ELSE ~opret.result.detected /\ opret.result.confidence = Num(0)

(***************************************************************************)
(* Properties of the decoding routines, checked under SpecDecode.          *)
(***************************************************************************)
Extracted ==
    decoded.called /\ op = "extractOpReturnData"

Analyzed ==
    decoded.called /\ op = "analyzeWitnessScript"

\* C14: for OP_RETURN, a push declaring N bytes and at least N further bytes,
\* extractOpReturnData returns exactly the N declared bytes: no header byte
\* and no byte after the declared length.
C14_ExtractsDeclaredBytes ==
    Extracted /\ IsCompletePush(bytes) =>
        ~decoded.data.isNull /\ decoded.data.buf = DeclaredData(bytes)

\* the same when nothing follows the N declared bytes
ExtractsWholePush ==
    (/\ Extracted
     /\ IsCompletePush(bytes)
     /\ Len(bytes) = 1 + PushHeaderLength(bytes) + DeclaredLength(bytes))
    => ~decoded.data.isNull /\ decoded.data.buf = DeclaredData(bytes)

\* C15: when the push declares more bytes than the script contains, the
\* extraction returns no data (none or an empty payload), not the partial
\* bytes.
C15_TruncatedPushYieldsNoData ==
    Extracted /\ IsTruncatedPush(bytes) =>
        decoded.data.isNull \/ decoded.data.buf = <<>>

IsSuffix(buf, s) ==
    \E from \in 0..Len(s) : buf = SliceFrom(s, from)

\* C16: for every byte sequence the payload extraction and the pubkey walk
\* read only indices inside the sequence and return a well-formed result:
\* none or a (possibly empty) tail of the script; pubkeys of at most 33 bytes
\* taken from the script, and counts that fit them.
C16_DecodersAreTotal ==
    /\ decoded.called => decoded.reads \subseteq 0..(Len(bytes) - 1)
    /\ Extracted =>
          /\ decoded.data.isNull \in BOOLEAN
          /\ decoded.data.isNull <=> (Len(bytes) = 0 \/ bytes[1] # 106)
          /\ IsSuffix(decoded.data.buf, bytes)
    /\ Analyzed =>
          /\ decoded.analysis.isSuspicious \in BOOLEAN
          /\ decoded.analysis.scriptSize = Len(bytes)
          /\ decoded.analysis.pubkeyCount = Len(decoded.pubkeys)
          /\ decoded.analysis.fakePubkeyCount \in 0..decoded.analysis.pubkeyCount
          /\ 34 * decoded.analysis.pubkeyCount <= Len(bytes) + 34
          /\ \A k \in 1..Len(decoded.pubkeys) : Len(decoded.pubkeys[k]) <= 33

\* a script cut inside a pushed key: the last pubkey comes out short
C16_Witness ==
    /\ Analyzed
    /\ Len(bytes) > 100
    /\ decoded.analysis.pubkeyCount > 0
    /\ Len(decoded.pubkeys[Len(decoded.pubkeys)]) < 33

BuiltinDetections ==
    (IF config.enableP2WSHDetection /\ P2WSHDetect(tx).result.detected
     THEN <<P2WSHDetect(tx).result>> ELSE <<>>)
    \o (IF config.enableOpReturnDetection /\ OpReturnDetect(tx).result.detected
        THEN <<OpReturnDetect(tx).result>> ELSE <<>>)

\* one detection per callback k.. that does not accept tx, in registration order
RECURSIVE CallbackDetections(_)
CallbackDetections(k) ==
    IF k > Len(jsFilters) THEN <<>>
    ELSE LET r == ApplyFilter(jsFilters[k], tx)
         IN  (IF r.accept THEN <<>>
              ELSE <<[detected |-> TRUE, confidence |-> r.score, reason |-> r.message]>>)
             \o CallbackDetections(k + 1)

\* C18: the detections are the P2WSH result, then the OP_RETURN result, then
\* one entry per non-accepting callback in registration order, and every
\* evaluation invokes each registered callback exactly once.
C18_DetectionsInInvocationOrder ==
    verdict.called =>
        /\ verdict.invoked = [k \in 1..Len(jsFilters) |-> k]
        /\ Returned => verdict.detections = BuiltinDetections \o CallbackDetections(1)

\* the same for the evaluations that return a verdict
DetectionsInOrderWhenReturned ==
    Returned =>
        /\ verdict.invoked = [k \in 1..Len(jsFilters) |-> k]
        /\ verdict.detections = BuiltinDetections \o CallbackDetections(1)

\* C19: in a returned verdict each callback that returned accept = false has
\* added its score and one detection {detected: true, confidence: score,
\* reason: message}; a callback that returned accept = true has added
\* neither, whatever score it returned.
C19_CallbackCountsOnlyIfNotAccepted ==
    Returned =>
        LET builtin == Len(BuiltinDetections)
        IN  /\ Len(verdict.detections) =
                  builtin + Cardinality({k \in 1..Len(jsFilters) :
                                           ~ApplyFilter(jsFilters[k], tx).accept})
            /\ SubSeq(verdict.detections, builtin + 1, Len(verdict.detections))
                  = CallbackDetections(1)
            /\ verdict.score = NumAdd(SumConfidence(BuiltinDetections), RejectedScore(1))

\* a callback accepting with score 30 beside one rejecting with score 40
C19_Witness ==
    /\ Returned
    /\ ~config.enableP2WSHDetection
    /\ ~config.enableOpReturnDetection
    /\ jsFilters = <<[kind |-> "constant", accept |-> TRUE, score |-> 30],
                     [kind |-> "constant", accept |-> FALSE, score |-> 40]>>
    /\ verdict.score = Num(40)
    /\ verdict.detections = <<[detected |-> TRUE, confidence |-> Num(40),
                               reason |-> "constant"]>>

P2WSHReasons ==
    { "No suspicious P2WSH patterns found",
      "Detected suspicious P2WSH CHECKMULTISIG patterns with fake pubkeys" }

OpReturnReasons ==
    { "No OP_RETURN outputs found",
      "Detected knotwork magic prefix (444) in OP_RETURN data",
      "Detected chained OP_RETURN pattern with continuation output",
      "OP_RETURN data exceeds standard size",
      "No suspicious OP_RETURN patterns detected" }

DetectionReasons ==
    {verdict.detections[k].reason : k \in 1..Len(verdict.detections)}

\* C20: a detector whose flag is false leaves no detection in the verdict and
\* adds nothing to the score, also for a transaction it would flag; with both
\* flags false and no callback the score is 0.
C20_DisabledDetectorNotRun ==
    Returned =>
        /\ ~config.enableP2WSHDetection =>
              /\ DetectionReasons \cap P2WSHReasons = {}
              /\ verdict.score = NumAdd(OpReturnShare, RejectedScore(1))
        /\ ~config.enableOpReturnDetection =>
              /\ DetectionReasons \cap OpReturnReasons = {}
              /\ verdict.score = NumAdd(P2WSHShare, RejectedScore(1))
        /\ (~config.enableP2WSHDetection /\ ~config.enableOpReturnDetection
                /\ jsFilters = <<>>)
              => verdict.score = Num(0) /\ verdict.detections = <<>>

\* a transaction both detectors flag, evaluated with both switched off
C20_Witness ==
    /\ Returned
    /\ ~config.enableP2WSHDetection
    /\ ~config.enableOpReturnDetection
    /\ jsFilters = <<>>
    /\ tx = BothTx
    /\ P2WSHDetect(tx).result.detected
    /\ OpReturnDetect(tx).result.detected
    /\ verdict.score = Num(0)

\* C21: the score of every returned verdict is >= 0, whatever the callbacks.
C21_ScoreNonNegative ==
    Returned => NumGE(verdict.score, Num(0))

(***************************************************************************)
(* The Lua filters.  Lua strings are indexed from 1, as sequences are.     *)
(* nil is NoBuffer.  Scores are Lua integers.                              *)
(***************************************************************************)
\* opreturn_spam.lua: extract_opreturn_data
extract_opreturn_data(script_pubkey) ==
    IF Len(script_pubkey) < 2 THEN NoBuffer
    ELSE IF script_pubkey[1] # OP_RETURN THEN NoBuffer
    ELSE LET opcode == script_pubkey[2]
             i == IF opcode = OP_PUSHDATA1 THEN 2 + 2
                  ELSE IF opcode = OP_PUSHDATA2 THEN 2 + 3
                  ELSE IF opcode = OP_PUSHDATA4 THEN 2 + 5
                  ELSE 2 + 1
         IN  IF opcode \notin {OP_PUSHDATA1, OP_PUSHDATA2, OP_PUSHDATA4}
                /\ ~(opcode > 0 /\ opcode <= MaxDirectPush)
             THEN NoBuffer
             ELSE IF i > Len(script_pubkey) THEN NoBuffer
             ELSE SomeBuffer(SubSeq(script_pubkey, i, Len(script_pubkey)))

\* opreturn_spam.lua: has_magic_prefix
has_magic_prefix(data) ==
    IF data.isNull \/ Len(data.buf) < 2 THEN FALSE
    ELSE data.buf[1] = 1 /\ data.buf[2] = 188

\* output:is_op_return() of the host: the outputs the parser tags nulldata
is_op_return(output) ==
    output.scriptPubKeyType = "nulldata"

\* the loop over opreturn_outputs: largest_opreturn and has_magic
RECURSIVE AnalyzeOpReturns(_, _, _)
AnalyzeOpReturns(opreturn_outputs, k, acc) ==
    IF k > Len(opreturn_outputs) THEN acc
    ELSE LET data == extract_opreturn_data(opreturn_outputs[k].scriptPubKey)
         IN  IF data.isNull THEN AnalyzeOpReturns(opreturn_outputs, k + 1, acc)
             ELSE AnalyzeOpReturns(opreturn_outputs, k + 1,
                      [largest_opreturn |-> IF Len(data.buf) > acc.largest_opreturn
                                            THEN Len(data.buf) ELSE acc.largest_opreturn,
                       has_magic |-> acc.has_magic \/ has_magic_prefix(data)])

\* opreturn_spam.lua: validate
opreturn_spam_validate(t) ==
    LET opreturn_outputs == SelectSeq(t.outputs, is_op_return)
        found == AnalyzeOpReturns(opreturn_outputs, 1,
                                  [largest_opreturn |-> 0, has_magic |-> FALSE])
        has_continuation == \E k \in 1..Len(t.outputs) :
                               t.outputs[k].value > 0 /\ t.outputs[k].value < ContinuationLimit
        has_chain_pattern == has_continuation /\ Len(opreturn_outputs) > 0
    IN  IF Len(opreturn_outputs) = 0
        THEN [accept |-> TRUE, score |-> 0, reason |-> "No OP_RETURN outputs"]
        ELSE IF found.has_magic
        THEN [accept |-> FALSE, score |-> MagicConfidence,
              reason |-> "Knotwork magic prefix (444) detected in OP_RETURN data"]
        ELSE IF has_chain_pattern
        THEN [accept |-> FALSE, score |-> ChainConfidence,
              reason |-> "Chained OP_RETURN pattern with continuation output"]
        ELSE IF found.largest_opreturn > StandardOpReturnSize
        THEN [accept |-> FALSE, score |-> OversizeConfidence,
              reason |-> "OP_RETURN exceeds standard size"]
        ELSE [accept |-> TRUE, score |-> 0, reason |-> "No suspicious OP_RETURN patterns"]

\* p2wsh_spam.lua: the loop for i = 2, 33 of is_likely_fake_pubkey
RECURSIVE LuaZeroScan(_, _, _, _, _)
LuaZeroScan(pubkey, i, zero_count, consecutive_zeros, max_consecutive_zeros) ==
    IF i <= PubkeyLen
    THEN IF pubkey[i] = 0
         THEN LuaZeroScan(pubkey, i + 1, zero_count + 1, consecutive_zeros + 1,
                          IF consecutive_zeros + 1 > max_consecutive_zeros
                          THEN consecutive_zeros + 1 ELSE max_consecutive_zeros)
         ELSE LuaZeroScan(pubkey, i + 1, zero_count, 0, max_consecutive_zeros)
    ELSE [zero_count |-> zero_count, max_consecutive_zeros |-> max_consecutive_zeros]

\* p2wsh_spam.lua: the loop for i = 2, 30 of is_likely_fake_pubkey
RECURSIVE LuaRepeatScan(_, _, _)
LuaRepeatScan(pubkey, i, repeating_patterns) ==
    IF i <= PubkeyLen - 3
    THEN LuaRepeatScan(pubkey, i + 1,
                       IF /\ pubkey[i] = pubkey[i + 1]
                          /\ pubkey[i] = pubkey[i + 2]
                          /\ pubkey[i] = pubkey[i + 3]
                       THEN repeating_patterns + 1 ELSE repeating_patterns)
    ELSE repeating_patterns

\* p2wsh_spam.lua: is_likely_fake_pubkey
is_likely_fake_pubkey(pubkey) ==
    IF Len(pubkey) # PubkeyLen THEN FALSE
    ELSE IF pubkey[1] # 2 /\ pubkey[1] # 3 THEN FALSE
    ELSE LET z == LuaZeroScan(pubkey, 2, 0, 0, 0)
         IN  IF z.max_consecutive_zeros > MaxConsecutiveZeros \/ z.zero_count > MaxZeroCount
             THEN TRUE
             ELSE LuaRepeatScan(pubkey, 2, 0) > MaxRepeatingPatterns

\* p2wsh_spam.lua: the while loop of analyze_witness_script, from index i
RECURSIVE LuaPubkeyWalk(_, _, _)
LuaPubkeyWalk(script, i, pubkeys) ==
    IF i < Len(script) - 1
    THEN LET opcode == script[i]
         IN  IF opcode = OP_PUSH33
             THEN IF i + 33 <= Len(script)
                  THEN LuaPubkeyWalk(script, i + 34,
                                     Append(pubkeys, SubSeq(script, i + 1, i + 33)))
                  ELSE pubkeys
             ELSE IF opcode >= OP_1 /\ opcode <= OP_16
             THEN LuaPubkeyWalk(script, i + 1, pubkeys)
             ELSE IF opcode = OP_CHECKMULTISIG
             THEN pubkeys
             ELSE LuaPubkeyWalk(script, i + 1, pubkeys)
    ELSE pubkeys

\* p2wsh_spam.lua: the loop counting the pubkeys that look fake
RECURSIVE LuaCountFake(_, _)
LuaCountFake(pubkeys, k) ==
    IF k > Len(pubkeys) THEN 0
    ELSE LET pubkey == pubkeys[k]
             fake == /\ Len(pubkey) = PubkeyLen
                     /\ pubkey[1] \in {2, 3}
                     /\ is_likely_fake_pubkey(pubkey)
         IN  (IF fake THEN 1 ELSE 0) + LuaCountFake(pubkeys, k + 1)

\* p2wsh_spam.lua: analyze_witness_script
analyze_witness_script(script) ==
    LET result == [is_suspicious |-> FALSE, pubkey_count |-> 0, fake_pubkey_count |-> 0,
                   has_checkmultisig |-> FALSE, script_size |-> Len(script)]
    IN  IF Len(script) = 0 THEN result
        ELSE IF script[Len(script)] # OP_CHECKMULTISIG THEN result
        ELSE LET pubkeys == LuaPubkeyWalk(script, 2, <<>>)
                 fakes == LuaCountFake(pubkeys, 1)
             IN  [is_suspicious |-> \/ Len(pubkeys) > RatioMinPubkeys /\ 2 * fakes > Len(pubkeys)
                                    \/ Len(pubkeys) > MaxPlainPubkeys,
                  pubkey_count |-> Len(pubkeys),
                  fake_pubkey_count |-> fakes,
                  has_checkmultisig |-> TRUE,
                  script_size |-> Len(script)]

\* p2wsh_spam.lua: the loop of validate over the inputs, from input k
RECURSIVE LuaInputLoop(_, _, _)
LuaInputLoop(inputs, k, acc) ==
    IF k > Len(inputs) THEN acc
    ELSE LET witness == inputs[k].witness
         IN  IF inputs[k].hasWitness /\ Len(witness) >= MinWitnessItems
                /\ Len(witness[Len(witness)]) > 0
             THEN LuaInputLoop(inputs, k + 1,
                      [total_p2wsh |-> acc.total_p2wsh + 1,
                       suspicious_count |->
                           IF analyze_witness_script(witness[Len(witness)]).is_suspicious
                           THEN acc.suspicious_count + 1 ELSE acc.suspicious_count])
             ELSE LuaInputLoop(inputs, k + 1, acc)

\* p2wsh_spam.lua: validate
p2wsh_spam_validate(t) ==
    LET acc == LuaInputLoop(t.inputs, 1, [total_p2wsh |-> 0, suspicious_count |-> 0])
    IN  IF acc.suspicious_count = 0
        THEN [accept |-> TRUE, score |-> 0, reason |-> "No suspicious P2WSH patterns"]
        ELSE [accept |-> FALSE,
              score |-> IF acc.total_p2wsh > 0
                        THEN Floor(Percent(acc.suspicious_count, acc.total_p2wsh)) ELSE 0,
              reason |-> "P2WSH spam"]

\* spam_filter.lua: CONFIG
LuaConfig(p2wsh_on, opreturn_on) ==
    [rejection_threshold |-> 50,
     enable_p2wsh_detection |-> p2wsh_on,
     enable_opreturn_detection |-> opreturn_on]

\* spam_filter.lua: validate
spam_filter_validate(cfg, t) ==
    LET p2wsh_result == p2wsh_spam_validate(t)
        afterP2WSH == IF cfg.enable_p2wsh_detection
                      THEN [max_score |-> IF p2wsh_result.score > 0 THEN p2wsh_result.score ELSE 0,
                            any_rejected |-> ~p2wsh_result.accept]
                      ELSE [max_score |-> 0, any_rejected |-> FALSE]
        opreturn_result == opreturn_spam_validate(t)
        afterOpReturn == IF cfg.enable_opreturn_detection
                         THEN [max_score |-> IF opreturn_result.score > afterP2WSH.max_score
                                             THEN opreturn_result.score
                                             ELSE afterP2WSH.max_score,
                               any_rejected |-> afterP2WSH.any_rejected \/ ~opreturn_result.accept]
                         ELSE afterP2WSH
    IN  IF afterOpReturn.any_rejected
        THEN [accept |-> FALSE, score |-> afterOpReturn.max_score]
        ELSE [accept |-> TRUE, score |-> afterOpReturn.max_score]

\* the outputs of the transactions handed to the Lua filters
LuaOutputPool ==
    { Output(0, MagicScript, "nulldata"), Output(0, SmallScript, "nulldata"),
      Output(546, SmallScript, "nulldata"), Output(0, DataScript(100), "nulldata"),
      Output(0, DataScript(80), "nulldata"), Output(0, NonPushScript, "nulldata"),
      Payment(5000), Payment(50000) }

LuaInputs ==
    { <<NoWitnessInput>>, <<Witness3(TestSpamScript)>>,
      <<Witness3(StdScript(4, 3, "real")), Witness3(NonMultisigScript4),
        Witness3(StdScript(3, 3, "real"))>> }

LuaTxs ==
    { Tx(ins, outs) : ins \in LuaInputs, outs \in SeqsUpTo(LuaOutputPool, MaxOutputs) }

InitLua ==
    /\ config \in { LuaConfig(a, b) : a \in BOOLEAN, b \in BOOLEAN }
    /\ jsFilters = <<>>
    /\ tx \in LuaTxs
    /\ op = "init"
    /\ verdict = NotCalled
    /\ p2wsh = NotCalled
    /\ opret = NotCalled
    /\ bytes = <<>>
    /\ decoded = NotCalled
    /\ firstCall = NotCalled
    /\ calls = NoCalls

\* the host calls validate(tx, ctx) of spam_filter.lua
CallSpamFilterValidate ==
    /\ ~verdict.called
    /\ verdict' = [called |-> TRUE,
                   result |-> spam_filter_validate(config, tx),
                   p2wsh_result |-> p2wsh_spam_validate(tx),
                   opreturn_result |-> opreturn_spam_validate(tx)]
    /\ op' = "validate"
    /\ UNCHANGED <<config, jsFilters, tx, p2wsh, opret, bytes, decoded, firstCall, calls>>

NextLua ==
    CallSpamFilterValidate

SpecLua ==
    InitLua /\ [][NextLua]_vars

(***************************************************************************)
(* Properties of evaluations in flight together, checked under             *)
(* SpecConcurrent.                                                         *)
(***************************************************************************)
\* C22: every evaluation that ends, however its statements were interleaved
\* with those of other evaluations, ends as the evaluation of its
\* transaction alone does.
C22_InterleavedAsAlone ==
    \A w \in Workers :
        calls[w].pc = "done" =>
            calls[w].result = evaluateTransaction(config, jsFilters, calls[w].tx)

\* one call has returned while a call for another transaction is in its loop
C22_Witness ==
    /\ calls["w1"].pc = "done"
    /\ calls["w2"].pc = "filters"
    /\ calls["w2"].k = 2
    /\ calls["w1"].tx = SpamTx
    /\ calls["w2"].tx = ThirdTx
    /\ ~calls["w1"].result.threw
    /\ calls["w1"].result.score = Num(140)

(***************************************************************************)
(* Properties of the Lua composite filter, checked under SpecLua.          *)
(***************************************************************************)
\* the largest score among the detectors that are enabled, 0 if none
LuaMaxScore ==
    LET p == IF config.enable_p2wsh_detection THEN verdict.p2wsh_result.score ELSE 0
        o == IF config.enable_opreturn_detection THEN verdict.opreturn_result.score ELSE 0
    IN  IF p > o THEN p ELSE o

\* C23: the composite Lua filter returns the maximum of the detector scores
\* and rejects exactly when that maximum is >= rejection_threshold; a
\* transaction whose only finding is an oversize OP_RETURN (40) is accepted.
C23_RejectsIffMaxAtThreshold ==
    verdict.called =>
        /\ verdict.result.score = LuaMaxScore
        /\ verdict.result.accept <=> verdict.result.score < config.rejection_threshold

\* C24: every candidate the multisig walk yields and pubkeyCount counts is
\* exactly 33 bytes long: a 0x21 byte followed by fewer than 33 bytes yields
\* no candidate.
C24_CandidatesAre33Bytes ==
    Analyzed =>
        /\ decoded.analysis.pubkeyCount = Len(decoded.pubkeys)
        /\ \A k \in 1..Len(decoded.pubkeys) : Len(decoded.pubkeys[k]) = PubkeyLen

\* the candidate of a 1-of-1 multisig script
IsOneKeyScript(script) ==
    /\ Len(script) = PubkeyLen + 4
    /\ script[2] = OP_PUSH33
    /\ script[Len(script)] = OP_CHECKMULTISIG

\* the number of zero bytes of data
ZeroBytes(data) ==
    Cardinality({ i \in 1..Len(data) : data[i] = 0 })

\* the length of the longest run of consecutive zero bytes of data
LongestZeroRun(data) ==
    LET runs == { n \in 0..Len(data) :
                    \E i \in 1..(Len(data) - n + 1) : \A j \in i..(i + n - 1) : data[j] = 0 }
    IN  CHOOSE n \in runs : \A m \in runs : m <= n

\* the number of start positions i in 0..28 at which bytes i..i+3 are equal
RepeatStarts(data) ==
    Cardinality({ i \in 0..28 : /\ At(data, i) = At(data, i + 1)
                                /\ At(data, i) = At(data, i + 2)
                                /\ At(data, i) = At(data, i + 3) })

FakeByRule(key) ==
    /\ key[1] \in {2, 3}
    /\ LET data == SubSeq(key, 2, Len(key))
       IN  \/ LongestZeroRun(data) > 4
           \/ ZeroBytes(data) > 10
           \/ RepeatStarts(data) > 2

\* C25: a 33-byte candidate with first byte 02 or 03 is fake exactly when,
\* over its other 32 bytes, the longest zero run is > 4, or the zero bytes
\* are > 10, or more than 2 positions start four equal bytes; a candidate
\* with another first byte is counted as a pubkey and never as fake.
C25_FakeExactlyByRule ==
    Analyzed /\ IsOneKeyScript(bytes) =>
        /\ decoded.analysis.pubkeyCount = 1
        /\ decoded.analysis.fakePubkeyCount = IF FakeByRule(decoded.pubkeys[1]) THEN 1 ELSE 0

\* a key that only the repeated bytes make fake: a zero run of 4 and 5 bytes 7
C25_Witness ==
    /\ Analyzed
    /\ IsOneKeyScript(bytes)
    /\ decoded.pubkeys[1][1] = 2
    /\ LongestZeroRun(SubSeq(decoded.pubkeys[1], 2, 33)) = 4
    /\ ZeroBytes(SubSeq(decoded.pubkeys[1], 2, 33)) = 10
    /\ RepeatStarts(SubSeq(decoded.pubkeys[1], 2, 33)) = 3
    /\ decoded.analysis.fakePubkeyCount = 1

\* OP_RETURN followed by a byte that is no push opcode
IsOpReturnWithoutPush(script) ==
    /\ Len(script) >= 2
    /\ script[1] = 106
    /\ ~(script[2] >= 1 /\ script[2] <= 75)
    /\ script[2] \notin {76, 77, 78}

\* C26: when the byte after 0x6a is not a push opcode, extractOpReturnData
\* yields no data, so nothing that could carry the magic prefix or count
\* towards the oversize limit.
C26_NonPushYieldsNoData ==
    Extracted /\ IsOpReturnWithoutPush(bytes) =>
        decoded.data.isNull \/ Len(decoded.data.buf) = 0

\* C27: the pubkey walk terminates: every iteration either stops at 0xae or
\* advances the offset, by 34 after 0x21 and by 1 otherwise, so there are at
\* most as many iterations as the script has bytes.
C27_WalkTerminates ==
    Analyzed =>
        LET offsets == decoded.walk.offsets
        IN  /\ ~decoded.walk.exhausted
            /\ Len(offsets) <= Len(bytes)
            /\ \A k \in 1..(Len(offsets) - 1) :
                  offsets[k + 1] - offsets[k] = IF At(bytes, offsets[k]) = 33 THEN 34 ELSE 1
            /\ decoded.walk.broke => At(bytes, offsets[Len(offsets)]) = 174
            /\ Len(decoded.pubkeys) =
                  Cardinality({ k \in 1..Len(offsets) : At(bytes, offsets[k]) = 33 })

\* a walk over pushes and other bytes that stops at a 0xae inside the script
C27_Witness ==
    /\ Analyzed
    /\ decoded.walk.broke
    /\ \E k \in 1..(Len(decoded.walk.offsets) - 1) :
          decoded.walk.offsets[k + 1] - decoded.walk.offsets[k] = 34
    /\ \E k \in 1..(Len(decoded.walk.offsets) - 1) :
          /\ decoded.walk.offsets[k + 1] - decoded.walk.offsets[k] = 1
          /\ At(bytes, decoded.walk.offsets[k]) \notin 81..96

(***************************************************************************)
(* What the engine's methods leave alone, checked under Spec.              *)
(***************************************************************************)
\* C28: evaluateTransaction leaves the configuration, the registry and the
\* transaction as they were; addJSFilter appends exactly one callback to the
\* registry and changes nothing else; so customFilters of getStatistics()
\* grows by one with every addJSFilter and with nothing else.
C28_Frame ==
    [][ /\ op' = "evaluateTransaction" =>
              /\ config' = config
              /\ jsFilters' = jsFilters
              /\ getStatistics' = getStatistics
              /\ tx' \in EngineTxs
        /\ op' = "addJSFilter" =>
              /\ config' = config
              /\ tx' = tx
              /\ \E filter \in FilterPool : jsFilters' = Append(jsFilters, filter)
              /\ getStatistics'.customFilters = getStatistics.customFilters + 1
              /\ getStatistics'.config = getStatistics.config
      ]_vars

\* a transaction evaluated by an engine after two addJSFilter calls
C28_Witness ==
    /\ op = "evaluateTransaction"
    /\ verdict.called
    /\ getStatistics.customFilters = 2
    /\ jsFilters[1] # jsFilters[2]

(***************************************************************************)
(* Properties of the DetectionResult of either detector, checked under     *)
(* SpecDetectors.                                                          *)
(***************************************************************************)
\* confidence within [0, 100], and positive exactly when detected
WellFormedResult(result) ==
    /\ NumGE(result.confidence, Num(0))
    /\ NumGE(Num(100), result.confidence)
    /\ result.detected <=> NumLT(Num(0), result.confidence)

\* the counters of detect after the first k inputs of the transaction
CountersAfter(k) ==
    P2WSHDetect(Tx(SubSeq(tx.inputs, 1, k), tx.outputs))

\* C29: every DetectionResult has a confidence within [0, 100]; detected =
\* false comes with confidence 0 and detected = true with confidence > 0;
\* after every input of the P2WSH loop suspiciousCount <= totalP2WSH.
C29_ResultsWellFormed ==
    /\ p2wsh.called =>
          /\ WellFormedResult(p2wsh.result)
          /\ \A k \in 0..Len(tx.inputs) :
                CountersAfter(k).suspiciousCount <= CountersAfter(k).totalP2WSH
    /\ opret.called => WellFormedResult(opret.result)

\* one suspicious input of three counted: confidence 100/3
C29_Witness ==
    /\ p2wsh.called
    /\ p2wsh.suspiciousCount = 1
    /\ p2wsh.totalP2WSH = 3
    /\ p2wsh.result.detected
    /\ ~IsInteger(p2wsh.result.confidence)

(***************************************************************************)
(* The TypeScript and the Lua OP_RETURN detectors side by side, checked    *)
(* under SpecOpReturn.                                                     *)
(***************************************************************************)
\* C30: on every transaction the TypeScript OP_RETURN detector and the Lua
\* OP_RETURN detector agree: detected is the negation of the Lua accept, and
\* confidence is the Lua score.
C30_SameAsLua ==
    opret.called =>
        /\ opret.result.detected = ~opreturn_spam_validate(tx).accept
        /\ opret.result.confidence = Num(opreturn_spam_validate(tx).score)

====
